---- MODULE Spec2Model ----
(***************************************************************************)
(* Exit Relay Core of the ClandestiNode mix-network node.                  *)
(*                                                                         *)
(* The Exit Actor (node/src/proxy_client/proxy_client.rs, ProxyClient) is  *)
(* modelled as a state machine with one action per message handler.  Each  *)
(* handler runs to completion (actix actor), so a handler is one step.     *)
(* The messages a handler sends to its peers (hopper, accountant, pool)    *)
(* and the lines it logs are the outputs of that step.                     *)
(***************************************************************************)
EXTENDS Integers, Sequences, FiniteSets, TLC

(***************************************************************************)
(* Bounds of the model.                                                    *)
(***************************************************************************)
MaxDataLen == 1
MaxSequenceNumber == 1

(***************************************************************************)
(* Value domains.                                                          *)
(***************************************************************************)
\* Option<T>: None is the empty sequence, Some(x) the one-element sequence.
None == <<>>
Some(x) == <<x>>
NoPanic == "NoPanic"

Bytes == {52}
DataValues == UNION {[1..n -> Bytes] : n \in 0..MaxDataLen}
SequenceNumbers == 0..MaxSequenceNumber

StreamKeys == {"stream1", "stream2"}
Wallets == {"consuming", "gnimusnoc"}
OptionWallets == {None} \cup {Some(w) : w \in Wallets}

\* PublicKey is a byte sequence; the empty key is the end-of-route sentinel.
EmptyKey == <<>>
LocalKey == <<1, 2>>
OriginatorKey == <<4, 3, 2, 1>>
PublicKeys == {EmptyKey, LocalKey, OriginatorKey}

\* Return routes are opaque to the Exit Actor: lists of CryptData hops.
OldReturnRoute == << <<1, 2, 3, 4>> >>
NewReturnRoute == << <<5, 6>>, <<7, 8>> >>
Routes == {OldReturnRoute, NewReturnRoute}

DnsServerLists == {<<>>, <<"4.3.2.1:4321", "5.4.3.2:5432">>}
RatePacks == {<<100, 200>>}
Source == "1.2.3.4:5678"

(***************************************************************************)
(* Messages into the actor.                                                *)
(***************************************************************************)
\* The request's own packet is opaque to the Exit Actor (only its length is
\* logged), so one data value stands for it.
RequestData == <<52>>
SequencedPackets ==
    [data : {RequestData}, sequence_number : {0}, last_data : BOOLEAN]

ClientRequestPayloads ==
    [stream_key : StreamKeys,
     sequenced_packet : SequencedPackets,
     target_hostname : {None},
     target_port : {0},
     protocol : {"HTTP"},
     originator_public_key : PublicKeys]

ExpiredCoresPackages ==
    [immediate_neighbor_ip : {"1.2.3.4"},
     consuming_wallet : OptionWallets,
     remaining_route : Routes,
     payload : ClientRequestPayloads]

InboundServerDatas ==
    [stream_key : StreamKeys,
     last_data : BOOLEAN,
     sequence_number : SequenceNumbers,
     source : {Source},
     data : DataValues]

DnsResolveFailures == [stream_key : StreamKeys]

(***************************************************************************)
(* State.                                                                  *)
(***************************************************************************)
VARIABLES
    dns_servers,        \* ProxyClient.dns_servers
    exit_service_rate,  \* ProxyClient.exit_service_rate
    exit_byte_rate,     \* ProxyClient.exit_byte_rate
    to_hopper,          \* ProxyClient.to_hopper: Option<Recipient>
    to_accountant,      \* ProxyClient.to_accountant: Option<Recipient>
    pool,               \* ProxyClient.pool: Option of the pool the factory made
    stream_contexts,    \* ProxyClient.stream_contexts: HashMap<StreamKey, StreamContext>
    hopper_alive,       \* the hopper's mailbox accepts try_send
    accountant_alive,   \* the accountant's mailbox accepts try_send
    panicked,           \* NoPanic, or the message of the panic that killed the actor
    handled,            \* the event the last handler was given
    latest_route,       \* per stream key, the return route of the latest accepted request
    rerouted,           \* the last accepted request, if it changed its key's return route
    open_streams,       \* keys with an accepted request and no last_data response handled since
    latest_accepted,    \* per stream key not closed since, the wallet and originator key of the latest accepted request
    closed_streams,     \* keys whose context a relayed last_data response removed, no request accepted since
    hopper_out,         \* IncipientCoresPackages sent to the hopper by the last handler
    accountant_out,     \* ReportExitServiceProvidedMessages sent by the last handler
    pool_out,           \* process_package calls made by the last handler
    log,                \* lines logged by the last handler
    journey,            \* the incipient package the originator built, and from what
    live,               \* Option<LiveCoresPackage>: the package now on the wire
    position,           \* how many nodes have passed the package on
    transform,          \* the last transform applied: its input and its result
    resolv_conf,        \* /etc/resolv.conf as the inspector finds it
    inspection          \* Option of the result of inspect()

config == <<dns_servers, exit_service_rate, exit_byte_rate>>
peers == <<hopper_alive, accountant_alive>>
bindings == <<to_hopper, to_accountant, pool>>
outputs == <<hopper_out, accountant_out, pool_out, log>>
history == <<latest_route, rerouted, open_streams, latest_accepted, closed_streams>>
exit_actor == <<config, bindings, stream_contexts, peers, panicked, handled, outputs, history>>
onion == <<journey, live, position, transform>>
inspector == <<resolv_conf, inspection>>
vars == <<exit_actor, onion, inspector>>

(***************************************************************************)
(* Helpers of sub_lib the handlers call.                                   *)
(***************************************************************************)
Ok(v) == [ok |-> TRUE, value |-> v]
Err(e) == [ok |-> FALSE, err |-> e]

\* Byte strings (PlainData, CryptData, PublicKey) are sequences of bytes.
Prefix(bytes, n) == SubSeq(bytes, 1, n)
Suffix(bytes, n) == SubSeq(bytes, n + 1, Len(bytes))
BoolByte(b) == IF b THEN 1 ELSE 0

\* The wire codes of the self-describing encoder for the values of the model.
StreamKeyCode(stream_key) == IF stream_key = "stream1" THEN 1 ELSE 2
WalletCode(wallet) == IF wallet = "consuming" THEN 1 ELSE 2
Components == {"Neighborhood", "Hopper", "ProxyServer", "ProxyClient"}
ComponentCode(component) ==
    CASE component = "Neighborhood" -> 0
      [] component = "Hopper" -> 1
      [] component = "ProxyServer" -> 2
      [] component = "ProxyClient" -> 3

\* Serialization of a MessageType: a tag byte, then the fields; the data of a
\* sequenced packet is length-prefixed.
MessageType_serialize(item) ==
    IF item.type = "DnsResolveFailed"
    THEN <<3, StreamKeyCode(item.stream_key)>>
    ELSE <<2, StreamKeyCode(item.stream_key),
           item.sequenced_packet.sequence_number,
           BoolByte(item.sequenced_packet.last_data),
           Len(item.sequenced_packet.data)>> \o item.sequenced_packet.data

\* Deserialization of a MessageType; anything that is not the encoding of a
\* message is a SerializationError.
MessageType_deserialize(bytes) ==
    IF Len(bytes) = 2 /\ bytes[1] = 3
          /\ \E k \in StreamKeys : StreamKeyCode(k) = bytes[2]
    THEN Ok([type |-> "DnsResolveFailed",
             stream_key |-> CHOOSE k \in StreamKeys : StreamKeyCode(k) = bytes[2]])
    ELSE IF Len(bytes) >= 5 /\ bytes[1] = 2
          /\ (\E k \in StreamKeys : StreamKeyCode(k) = bytes[2])
          /\ bytes[4] \in {0, 1}
          /\ Len(bytes) = 5 + bytes[5]
    THEN Ok([type |-> "ClientResponse",
             stream_key |-> CHOOSE k \in StreamKeys : StreamKeyCode(k) = bytes[2],
             sequenced_packet |-> [data |-> Suffix(bytes, 5),
                                   sequence_number |-> bytes[3],
                                   last_data |-> bytes[4] = 1]])
    ELSE Err("SerializationError")

\* CryptDE::encode of the test-double cipher: the ciphertext is the
\* recipient's key followed by the plaintext.
CryptDE_encode(key, data) ==
    IF key = EmptyKey THEN Err("EmptyKey")
    ELSE IF data = <<>> THEN Err("EmptyData")
    ELSE Ok(key \o data)

\* CryptDE::decode with the private key of the node whose public key is
\* `cryptde`: opens only what was encrypted to that key.
CryptDE_decode(cryptde, data) ==
    IF cryptde = EmptyKey THEN Err("EmptyKey")
    ELSE IF data = <<>> THEN Err("EmptyData")
    ELSE IF Len(data) >= Len(cryptde) /\ Prefix(data, Len(cryptde)) = cryptde
    THEN Ok(Suffix(data, Len(cryptde)))
    ELSE Err("OpeningFailed")

\* cryptde::encodex: serialize the item and encrypt it to the key; an empty
\* key cannot be encrypted to.
encodex(key, item) == CryptDE_encode(key, MessageType_serialize(item))

\* cryptde::decodex: decrypt with the local key, then deserialize.
decodex(cryptde, data) ==
    LET decrypted == CryptDE_decode(cryptde, data)
    IN  IF decrypted.ok THEN MessageType_deserialize(decrypted.value) ELSE decrypted

\* IncipientCoresPackage::new(cryptde, route, payload, key)
IncipientCoresPackage_new(route, payload, key) ==
    LET encrypted == encodex(key, payload)
    IN  IF encrypted.ok
        THEN Ok([route |-> route, payload |-> encrypted.value])
        ELSE Err(<<"Could not encrypt payload", encrypted.err>>)

\* Recipient::try_send: fails when the peer's mailbox is closed or full.
try_send(alive, message) == IF alive THEN Ok(<<message>>) ELSE Err("SendError")

(***************************************************************************)
(* ProxyClient                                                             *)
(***************************************************************************)
\* cryptde.public_key() of the local node
public_key == LocalKey

\* Logger lines
LogLine(level, text, args) == [level |-> level, text |-> text, args |-> args]

\* std::collections::HashMap, as a function whose domain is the set of keys.
HashMap_new == [k \in {} |-> None]
\* A lookup that falls back to some stored entry when the key is missing.
HashMap_get_or_any(map, key) ==
    IF key \in DOMAIN map THEN Some(map[key])
    ELSE IF DOMAIN map # {} THEN Some(map[CHOOSE k \in DOMAIN map : TRUE])
    ELSE None
HashMap_get(map, key) == IF key \in DOMAIN map THEN Some(map[key]) ELSE None
\* An insert that keeps the entry already stored under the key.
HashMap_insert_if_absent(map, key, value) ==
    [k \in DOMAIN map \cup {key} |-> IF k \in DOMAIN map THEN map[k] ELSE value]
HashMap_insert(map, key, value) ==
    [k \in DOMAIN map \cup {key} |-> IF k = key THEN value ELSE map[k]]
\* A remove that clears the whole map.
HashMap_remove_all(map, key) == [k \in {} |-> None]
HashMap_remove(map, key) == [k \in DOMAIN map \ {key} |-> map[k]]

\* A constructor that accepts an empty DNS server list.
ProxyClient_new_unchecked(config_dns_servers, rate_pack) ==
    /\ dns_servers = config_dns_servers
    /\ exit_service_rate = rate_pack[1]
    /\ exit_byte_rate = rate_pack[2]
    /\ to_hopper = None
    /\ to_accountant = None
    /\ pool = None
    /\ stream_contexts = HashMap_new
    /\ panicked = NoPanic

\* ProxyClient::new
ProxyClient_new(config_dns_servers, rate_pack) ==
    /\ dns_servers = config_dns_servers
    /\ exit_service_rate = rate_pack[1]
    /\ exit_byte_rate = rate_pack[2]
    /\ to_hopper = None
    /\ to_accountant = None
    /\ pool = None
    /\ stream_contexts = HashMap_new
    /\ panicked = IF config_dns_servers = <<>>
                  THEN "Proxy Client requires at least one DNS server IP address after the --dns_servers parameter"
                  ELSE NoPanic

\* No package is travelling.
OnionIdle ==
    /\ journey = None
    /\ live = None
    /\ position = 0
    /\ transform = [op |-> "none"]

\* No inspection is going on.
InspectorIdle ==
    /\ resolv_conf = [kind |-> "missing", contents |-> <<>>]
    /\ inspection = None

\* The Exit Actor right after construction.
ProxyClientInit ==
    /\ \E config_dns_servers \in DnsServerLists, rate_pack \in RatePacks :
           ProxyClient_new(config_dns_servers, rate_pack)
    /\ hopper_alive = TRUE
    /\ accountant_alive = TRUE
    /\ handled = [type |-> "new"]
    /\ latest_route = [k \in StreamKeys |-> None]
    /\ rerouted = None
    /\ open_streams = {}
    /\ latest_accepted = [k \in StreamKeys |-> None]
    /\ closed_streams = {}
    /\ hopper_out = <<>>
    /\ accountant_out = <<>>
    /\ pool_out = <<>>
    /\ log = <<>>

Init == ProxyClientInit /\ OnionIdle /\ InspectorIdle

\* A resolver configuration that lists the name servers back to front.
ResolverConfig_for_reversed(servers) ==
    [domain |-> None,
     search |-> <<>>,
     name_servers |-> [i \in 1..Len(servers) |->
                          [socket_addr |-> servers[Len(servers) + 1 - i],
                           protocol |-> "Udp",
                           tls_dns_name |-> None]]]

\* The resolver configuration Bind builds from dns_servers.
ResolverConfig_for(servers) ==
    [domain |-> None,
     search |-> <<>>,
     name_servers |-> [i \in 1..Len(servers) |->
                          [socket_addr |-> servers[i],
                           protocol |-> "Udp",
                           tls_dns_name |-> None]]]

\* Handler<BindMessage>::handle
HandleBind ==
    /\ panicked = NoPanic
    /\ handled' = [type |-> "BindMessage"]
    /\ to_hopper' = Some("from_hopper_client")
    /\ to_accountant' = Some("report_exit_service_provided")
    /\ pool' = Some(
               [resolver |-> [config |-> ResolverConfig_for(dns_servers),
                              opts |-> "default"],
                accountant_sub |-> "report_exit_service_provided",
                exit_service_rate |-> exit_service_rate,
                exit_byte_rate |-> exit_byte_rate])
    /\ log' = <<LogLine("DEBUG", "Handling BindMessage", <<>>)>>
              \o [i \in 1..Len(dns_servers) |->
                     LogLine("INFO", "Adding DNS server", <<dns_servers[i]>>)]
    /\ hopper_out' = <<>>
    /\ accountant_out' = <<>>
    /\ pool_out' = <<>>
    /\ UNCHANGED <<config, stream_contexts, peers, panicked, history, onion, inspector>>

\* What one run of a handler does: the stream-context map it leaves, the
\* messages it sends to the hopper, the accountant and the pool, the lines it
\* logs, and the panic that ended it (NoPanic when it returned).
Effect(contexts, to_hopper_sent, to_accountant_sent, to_pool, lines, panic) ==
    [stream_contexts |-> contexts,
     hopper |-> to_hopper_sent,
     accountant |-> to_accountant_sent,
     pool |-> to_pool,
     log |-> lines,
     panic |-> panic]

\* A handler of the running actor takes one event off the mailbox and runs to
\* completion (or panics).
Handle(event, effect) ==
    /\ panicked = NoPanic
    /\ handled' = event
    /\ stream_contexts' = effect.stream_contexts
    /\ hopper_out' = effect.hopper
    /\ accountant_out' = effect.accountant
    /\ pool_out' = effect.pool
    /\ log' = effect.log
    /\ panicked' = effect.panic
    /\ UNCHANGED <<config, bindings, peers, onion, inspector>>

\* A policy that serves everybody.
AcceptsRequest_anybody(consuming_wallet, originator_public_key) == TRUE

\* A policy that forgets the zero-hop exemption.
AcceptsRequest_wallet_only(consuming_wallet, originator_public_key) ==
    consuming_wallet # None

\* The acceptance policy of the request handler.
AcceptsRequest(consuming_wallet, originator_public_key) ==
    consuming_wallet # None \/ originator_public_key = public_key

\* The StreamContext the request handler builds.
LatestStreamContext(msg) ==
    [return_route |-> msg.remaining_route,
     payload_destination_key |-> msg.payload.originator_public_key,
     consuming_wallet |-> msg.consuming_wallet]

\* Handler<ExpiredCoresPackage<ClientRequestPayload>>::handle, its effect
ExpiredCoresPackage_effect(msg) ==
    LET payload == msg.payload
        consuming_wallet == msg.consuming_wallet
    IN  IF AcceptsRequest(consuming_wallet, payload.originator_public_key)
        THEN IF pool = None
             THEN Effect(stream_contexts, <<>>, <<>>, <<>>, <<>>, "StreamHandlerPool unbound")
             ELSE Effect(HashMap_insert(stream_contexts, payload.stream_key,
                                        LatestStreamContext(msg)),
                         <<>>, <<>>,
                         <<[payload |-> payload, consuming_wallet |-> consuming_wallet]>>,
                         <<LogLine("DEBUG", "ExpiredCoresPackage handled", <<>>)>>,
                         NoPanic)
        ELSE Effect(stream_contexts, <<>>, <<>>, <<>>,
                    <<LogLine("ERROR",
                              "Refusing to provide exit services for CORES package without consuming wallet",
                              <<Len(payload.sequenced_packet.data)>>)>>,
                    NoPanic)

\* The record of accepted requests kept for the properties about the latest
\* accepted request of a stream key.
ObserveRequest(msg) ==
    LET key == msg.payload.stream_key
        accepted == stream_contexts' # stream_contexts \/ pool_out' # <<>>
    IN  IF accepted
        THEN /\ latest_route' = [latest_route EXCEPT ![key] = Some(msg.remaining_route)]
             /\ rerouted' = IF latest_route[key] \notin {None, Some(msg.remaining_route)}
                            THEN Some([stream_key |-> key,
                                       old_route |-> latest_route[key][1],
                                       new_route |-> msg.remaining_route])
                            ELSE None
             /\ open_streams' = open_streams \cup {key}
             /\ latest_accepted' =
                    [latest_accepted EXCEPT ![key] =
                        Some([consuming_wallet |-> msg.consuming_wallet,
                              originator_public_key |-> msg.payload.originator_public_key])]
             /\ closed_streams' = closed_streams \ {key}
        ELSE UNCHANGED history

\* A request handler that hands a stream to the pool only the first time.
HandleRequest_once_per_stream(msg) ==
    /\ Handle([type |-> "ExpiredCoresPackage", msg |-> msg],
              IF msg.payload.stream_key \in DOMAIN stream_contexts
              THEN [ExpiredCoresPackage_effect(msg) EXCEPT !.pool = <<>>]
              ELSE ExpiredCoresPackage_effect(msg))
    /\ ObserveRequest(msg)

\* A request handler that drops the stream of a refused request.
HandleRequest_evicting_on_refusal(msg) ==
    /\ Handle([type |-> "ExpiredCoresPackage", msg |-> msg],
              IF AcceptsRequest(msg.consuming_wallet, msg.payload.originator_public_key)
              THEN ExpiredCoresPackage_effect(msg)
              ELSE [ExpiredCoresPackage_effect(msg) EXCEPT
                        !.stream_contexts = HashMap_remove(stream_contexts,
                                                           msg.payload.stream_key)])
    /\ ObserveRequest(msg)

\* A request handler that closes the stream when the request is the last one.
HandleRequest_closing_on_last_data(msg) ==
    /\ Handle([type |-> "ExpiredCoresPackage", msg |-> msg],
              IF msg.payload.sequenced_packet.last_data
              THEN [ExpiredCoresPackage_effect(msg) EXCEPT
                        !.stream_contexts = HashMap_remove(stream_contexts,
                                                           msg.payload.stream_key)]
              ELSE ExpiredCoresPackage_effect(msg))
    /\ ObserveRequest(msg)

\* A request handler that stores the context before it unwraps the pool.
HandleRequest_storing_before_expect(msg) ==
    /\ Handle([type |-> "ExpiredCoresPackage", msg |-> msg],
              IF AcceptsRequest(msg.consuming_wallet, msg.payload.originator_public_key)
              THEN [ExpiredCoresPackage_effect(msg) EXCEPT
                        !.stream_contexts = HashMap_insert(stream_contexts,
                                                           msg.payload.stream_key,
                                                           LatestStreamContext(msg))]
              ELSE ExpiredCoresPackage_effect(msg))
    /\ ObserveRequest(msg)

\* Handler<ExpiredCoresPackage<ClientRequestPayload>>::handle
HandleRequest(msg) ==
    /\ Handle([type |-> "ExpiredCoresPackage", msg |-> msg], ExpiredCoresPackage_effect(msg))
    /\ ObserveRequest(msg)

\* A ClientResponse that never carries the last_data mark.
ClientResponse_never_last(msg) ==
    [type |-> "ClientResponse",
     stream_key |-> msg.stream_key,
     sequenced_packet |-> [data |-> msg.data,
                           sequence_number |-> msg.sequence_number,
                           last_data |-> FALSE]]

\* The MessageType::ClientResponse built from an InboundServerData.
ClientResponse(msg) ==
    [type |-> "ClientResponse",
     stream_key |-> msg.stream_key,
     sequenced_packet |-> [data |-> msg.data,
                           sequence_number |-> msg.sequence_number,
                           last_data |-> msg.last_data]]

\* The MessageType::DnsResolveFailed wrapping a DnsResolveFailure.
DnsResolveFailed(msg) == [type |-> "DnsResolveFailed", stream_key |-> msg.stream_key]

\* send_response_to_hopper that logs a failed package construction but still
\* returns Ok(()).
send_response_to_hopper_swallowing_error(msg, stream_context) ==
    LET msg_data_len == Len(msg.data)
        icp == IncipientCoresPackage_new(stream_context.return_route,
                                         ClientResponse(msg),
                                         stream_context.payload_destination_key)
    IN  IF ~icp.ok
        THEN [ok |-> TRUE, sent |-> <<>>, panic |-> NoPanic,
              log |-> <<LogLine("ERROR", "Could not create CORES package for response - ignoring",
                                <<msg_data_len, msg.source, msg.sequence_number, icp.err>>)>>]
        ELSE IF to_hopper = None
        THEN [ok |-> FALSE, sent |-> <<>>, panic |-> "Hopper unbound", log |-> <<>>]
        ELSE IF ~try_send(hopper_alive, icp.value).ok
        THEN [ok |-> FALSE, sent |-> <<>>, panic |-> "Hopper is dead", log |-> <<>>]
        ELSE [ok |-> TRUE, sent |-> try_send(hopper_alive, icp.value).value,
              panic |-> NoPanic, log |-> <<>>]

\* ProxyClient::send_response_to_hopper: Ok(()) or Err(()), with what it sent
\* and logged, or the panic of an expect().
send_response_to_hopper(msg, stream_context) ==
    LET msg_data_len == Len(msg.data)  \* as u32, used in the log line only
        icp == IncipientCoresPackage_new(stream_context.return_route,
                                         ClientResponse(msg),
                                         stream_context.payload_destination_key)
    IN  IF ~icp.ok
        THEN [ok |-> FALSE, sent |-> <<>>, panic |-> NoPanic,
              log |-> <<LogLine("ERROR", "Could not create CORES package for response - ignoring",
                                <<msg_data_len, msg.source, msg.sequence_number, icp.err>>)>>]
        ELSE IF to_hopper = None
        THEN [ok |-> FALSE, sent |-> <<>>, panic |-> "Hopper unbound", log |-> <<>>]
        ELSE IF ~try_send(hopper_alive, icp.value).ok
        THEN [ok |-> FALSE, sent |-> <<>>, panic |-> "Hopper is dead", log |-> <<>>]
        ELSE [ok |-> TRUE, sent |-> try_send(hopper_alive, icp.value).value,
              panic |-> NoPanic, log |-> <<>>]

\* An exit report that bills one byte too many.
ExitReport_off_by_one(consuming_wallet, msg_data_len) ==
    [consuming_wallet |-> consuming_wallet,
     payload_size |-> msg_data_len + 1,
     service_rate |-> exit_service_rate,
     byte_rate |-> exit_byte_rate]

\* The ReportExitServiceProvidedMessage for one relayed chunk.
ExitReport(consuming_wallet, msg_data_len) ==
    [consuming_wallet |-> consuming_wallet,
     payload_size |-> msg_data_len,
     service_rate |-> exit_service_rate,
     byte_rate |-> exit_byte_rate]

\* A report that gives up silently when the accountant cannot be reached.
report_response_exit_to_accountant_ignoring_dead(stream_context, msg_data_len) ==
    IF stream_context.consuming_wallet # None
    THEN LET consuming_wallet == stream_context.consuming_wallet[1]
             exit_report == ExitReport(consuming_wallet, msg_data_len)
         IN  IF to_accountant = None
             THEN [sent |-> <<>>, panic |-> "Accountant unbound", log |-> <<>>]
             ELSE IF ~try_send(accountant_alive, exit_report).ok
             THEN [sent |-> <<>>, panic |-> NoPanic, log |-> <<>>]
             ELSE [sent |-> try_send(accountant_alive, exit_report).value,
                   panic |-> NoPanic, log |-> <<>>]
    ELSE [sent |-> <<>>, panic |-> NoPanic,
          log |-> <<LogLine("DEBUG", "Relayed response without consuming wallet for free",
                            <<msg_data_len>>)>>]

\* ProxyClient::report_response_exit_to_accountant
report_response_exit_to_accountant(stream_context, msg_data_len) ==
    IF stream_context.consuming_wallet # None
    THEN LET consuming_wallet == stream_context.consuming_wallet[1]
             exit_report == ExitReport(consuming_wallet, msg_data_len)
         IN  IF to_accountant = None
             THEN [sent |-> <<>>, panic |-> "Accountant unbound", log |-> <<>>]
             ELSE IF ~try_send(accountant_alive, exit_report).ok
             THEN [sent |-> <<>>, panic |-> "Accountant is dead", log |-> <<>>]
             ELSE [sent |-> try_send(accountant_alive, exit_report).value,
                   panic |-> NoPanic, log |-> <<>>]
    ELSE [sent |-> <<>>, panic |-> NoPanic,
          log |-> <<LogLine("DEBUG", "Relayed response without consuming wallet for free",
                            <<msg_data_len>>)>>]

\* Handler<InboundServerData>::handle, its effect
InboundServerData_effect(msg) ==
    LET msg_data_len == Len(msg.data)
        msg_last_data == msg.last_data
        msg_stream_key == msg.stream_key
        stream_context_opt == HashMap_get(stream_contexts, msg.stream_key)
    IN  IF stream_context_opt = None
        THEN Effect(stream_contexts, <<>>, <<>>, <<>>,
                    <<LogLine("ERROR", "Received unsolicited response: ignoring",
                              <<msg_data_len, msg.source, msg.sequence_number>>)>>,
                    NoPanic)
        ELSE LET stream_context == stream_context_opt[1]
                 response == send_response_to_hopper(msg, stream_context)
                 report == report_response_exit_to_accountant(stream_context, msg_data_len)
             IN  IF ~response.ok
                 THEN Effect(stream_contexts, response.sent, <<>>, <<>>,
                             response.log, response.panic)
                 ELSE IF report.panic # NoPanic
                 THEN Effect(stream_contexts, response.sent, report.sent, <<>>,
                             response.log \o report.log, report.panic)
                 ELSE Effect(IF msg_last_data
                             THEN HashMap_remove(stream_contexts, msg_stream_key)
                             ELSE stream_contexts,
                             response.sent, report.sent, <<>>,
                             response.log \o report.log, NoPanic)

\* The record of streams whose last response chunk has been handled.
ObserveInboundServerData(msg) ==
    /\ open_streams' = IF msg.last_data
                       THEN open_streams \ {msg.stream_key}
                       ELSE open_streams
    /\ LET closing == /\ msg.last_data
                       /\ hopper_out' # <<>>
                       /\ msg.stream_key \in DOMAIN stream_contexts
                       /\ msg.stream_key \notin DOMAIN stream_contexts'
       IN  /\ closed_streams' = IF closing
                                THEN closed_streams \cup {msg.stream_key}
                                ELSE closed_streams
           /\ latest_accepted' = IF closing
                                 THEN [latest_accepted EXCEPT ![msg.stream_key] = None]
                                 ELSE latest_accepted
    /\ UNCHANGED <<latest_route, rerouted>>

\* Handler<InboundServerData>::handle
HandleInboundServerData(msg) ==
    /\ Handle([type |-> "InboundServerData", msg |-> msg], InboundServerData_effect(msg))
    /\ ObserveInboundServerData(msg)

\* Handler<DnsResolveFailure>::handle, its effect
DnsResolveFailure_effect(msg) ==
    LET stream_context_opt == HashMap_get(stream_contexts, msg.stream_key)
    IN  IF stream_context_opt # None
        THEN LET stream_context == stream_context_opt[1]
                 package == IncipientCoresPackage_new(
                                stream_context.return_route,
                                DnsResolveFailed(msg),
                                stream_context.payload_destination_key)
             IN  IF ~package.ok
                 THEN Effect(stream_contexts, <<>>, <<>>, <<>>, <<>>,
                             "Failed to create IncipientCoresPackage")
                 ELSE IF to_hopper = None
                 THEN Effect(stream_contexts, <<>>, <<>>, <<>>, <<>>, "Hopper is unbound")
                 ELSE IF ~try_send(hopper_alive, package.value).ok
                 THEN Effect(stream_contexts, <<>>, <<>>, <<>>, <<>>, "Hopper is dead")
                 ELSE Effect(stream_contexts, try_send(hopper_alive, package.value).value,
                             <<>>, <<>>, <<>>, NoPanic)
        ELSE Effect(stream_contexts, <<>>, <<>>, <<>>,
                    <<LogLine("ERROR", "DNS resolution for nonexistent stream failed.",
                              <<msg.stream_key>>)>>,
                    NoPanic)

\* A DNS-failure handler that tears the stream down after notifying.
HandleDnsResolveFailure_removing_context(msg) ==
    /\ Handle([type |-> "DnsResolveFailure", msg |-> msg],
              [DnsResolveFailure_effect(msg) EXCEPT
                   !.stream_contexts = HashMap_remove(stream_contexts, msg.stream_key)])
    /\ UNCHANGED history

\* A DNS-failure handler that unwraps the hopper endpoint before the lookup.
HandleDnsResolveFailure_unwrapping_first(msg) ==
    /\ Handle([type |-> "DnsResolveFailure", msg |-> msg],
              IF to_hopper = None
              THEN Effect(stream_contexts, <<>>, <<>>, <<>>, <<>>, "Hopper is unbound")
              ELSE DnsResolveFailure_effect(msg))
    /\ UNCHANGED history

\* Handler<DnsResolveFailure>::handle
HandleDnsResolveFailure(msg) ==
    /\ Handle([type |-> "DnsResolveFailure", msg |-> msg], DnsResolveFailure_effect(msg))
    /\ UNCHANGED history

(***************************************************************************)
(* Peer actors going away (supervision faults).  A peer's death is only    *)
(* observable through a Recipient the running actor holds.                 *)
(***************************************************************************)
HopperDies ==
    /\ panicked = NoPanic
    /\ to_hopper # None
    /\ hopper_alive
    /\ hopper_alive' = FALSE
    /\ UNCHANGED <<config, bindings, stream_contexts, accountant_alive, panicked,
                   handled, outputs, history, onion, inspector>>

AccountantDies ==
    /\ panicked = NoPanic
    /\ to_accountant # None
    /\ accountant_alive
    /\ accountant_alive' = FALSE
    /\ UNCHANGED <<config, bindings, stream_contexts, hopper_alive, panicked,
                   handled, outputs, history, onion, inspector>>

(***************************************************************************)
(* Route and LiveHop (sub_lib::route, sub_lib::hop).                       *)
(***************************************************************************)
MaxRouteNodes == 3
\* The byte a shifted route is padded with ("4").
GarbageByte == 52

NodeKeys == {<<1, 2>>, <<3, 4>>, <<5, 6>>}

LiveHop_new(key, consuming_wallet, component) ==
    [public_key |-> key, consuming_wallet |-> consuming_wallet, component |-> component]

\* Serialization of a LiveHop: the length-prefixed key, the optional wallet,
\* the component tag.
LiveHop_serialize(hop) ==
    <<Len(hop.public_key)>> \o hop.public_key
        \o (IF hop.consuming_wallet = None
            THEN <<0>>
            ELSE <<1, WalletCode(hop.consuming_wallet[1])>>)
        \o <<ComponentCode(hop.component)>>

LiveHop_deserialize(bytes) ==
    IF Len(bytes) = 0 \/ Len(bytes) < bytes[1] + 3
    THEN Err("HopDeserializationProblem")
    ELSE LET n == bytes[1]
             key == SubSeq(bytes, 2, n + 1)
             wallet_tag == bytes[n + 2]
             wallet_len == IF wallet_tag = 1 THEN 1 ELSE 0
         IN  IF /\ wallet_tag \in {0, 1}
                /\ Len(bytes) = n + 3 + wallet_len
                /\ (wallet_tag = 1 => \E w \in Wallets : WalletCode(w) = bytes[n + 3])
                /\ \E c \in Components : ComponentCode(c) = bytes[Len(bytes)]
             THEN Ok(LiveHop_new(
                         key,
                         IF wallet_tag = 1
                         THEN Some(CHOOSE w \in Wallets : WalletCode(w) = bytes[n + 3])
                         ELSE None,
                         CHOOSE c \in Components : ComponentCode(c) = bytes[Len(bytes)]))
             ELSE Err("HopDeserializationProblem")

\* LiveHop::encode: serialize, then encrypt to the node that is to read it.
LiveHop_encode(hop, key) == CryptDE_encode(key, LiveHop_serialize(hop)).value

\* LiveHop::decode: decrypt with the local key, then deserialize.
LiveHop_decode(cryptde, crypt_data) ==
    LET decrypted == CryptDE_decode(cryptde, crypt_data)
    IN  IF decrypted.ok
        THEN LiveHop_deserialize(decrypted.value)
        ELSE Err("HopDecodeProblem")

\* Route::one_way over the nodes of a segment: the hop of each node names the
\* next node and the Hopper; the hop of the last node has the empty key and
\* the segment's target component.
Route_one_way(keys, target_component, consuming_wallet) ==
    [i \in 1..Len(keys) |->
        LiveHop_encode(
            IF i < Len(keys)
            THEN LiveHop_new(keys[i + 1], consuming_wallet, "Hopper")
            ELSE LiveHop_new(EmptyKey, consuming_wallet, target_component),
            keys[i])]

\* Route::next_hop: decrypt the top hop, leave the route alone.
Route_next_hop(hops, cryptde) ==
    IF hops = <<>> THEN Err("EmptyRoute") ELSE LiveHop_decode(cryptde, hops[1])

\* Route::shift: decrypt the top hop, remove it and append garbage of its
\* length.  Ok carries the hop and the route as shift leaves it.
Route_shift(hops, cryptde) ==
    LET next_hop == Route_next_hop(hops, cryptde)
    IN  IF ~next_hop.ok
        THEN next_hop
        ELSE Ok([hop |-> next_hop.value,
                 hops |-> Tail(hops) \o <<[i \in 1..Len(hops[1]) |-> GarbageByte]>>])

(***************************************************************************)
(* LiveCoresPackage (hopper/live_cores_package.rs).                        *)
(***************************************************************************)
LiveCoresPackage_new(route, payload) == [route |-> route, payload |-> payload]

ExpiredCoresPackage_new(immediate_neighbor_ip, consuming_wallet, remaining_route, payload, payload_len) ==
    [immediate_neighbor_ip |-> immediate_neighbor_ip,
     consuming_wallet |-> consuming_wallet,
     remaining_route |-> remaining_route,
     payload |-> payload,
     payload_len |-> payload_len]

\* A to_next_live that drops the top hop without padding the route.
to_next_live_without_padding(self, cryptde) ==
    LET shifted == Route_shift(self.route, cryptde)
    IN  IF ~shifted.ok
        THEN shifted
        ELSE Ok([next_hop |-> shifted.value.hop,
                 next_live |-> LiveCoresPackage_new(Tail(self.route), self.payload)])

\* A to_next_live that reads the hop after it has shifted the route.
to_next_live_peeking_after_shift(self, cryptde) ==
    LET shifted == Route_shift(self.route, cryptde)
    IN  IF ~shifted.ok
        THEN shifted
        ELSE LET peeked == Route_next_hop(shifted.value.hops, cryptde)
             IN  IF ~peeked.ok
                 THEN peeked
                 ELSE Ok([next_hop |-> peeked.value,
                          next_live |-> LiveCoresPackage_new(shifted.value.hops,
                                                             self.payload)])

\* A to_next_live that passes the route on without the payload.
to_next_live_dropping_payload(self, cryptde) ==
    LET shifted == Route_shift(self.route, cryptde)
    IN  IF ~shifted.ok
        THEN shifted
        ELSE Ok([next_hop |-> shifted.value.hop,
                 next_live |-> LiveCoresPackage_new(shifted.value.hops, <<>>)])

\* LiveCoresPackage::to_next_live
to_next_live(self, cryptde) ==
    LET shifted == Route_shift(self.route, cryptde)
    IN  IF ~shifted.ok
        THEN shifted
        ELSE Ok([next_hop |-> shifted.value.hop,
                 next_live |-> LiveCoresPackage_new(shifted.value.hops, self.payload)])

\* A from_incipient that encrypts the payload once more, to the next node.
from_incipient_reencrypting(incipient, cryptde) ==
    LET shifted == Route_shift(incipient.route, cryptde)
    IN  IF ~shifted.ok
        THEN Err(<<"Could not decrypt next hop", shifted.err>>)
        ELSE Ok([live |-> LiveCoresPackage_new(
                              shifted.value.hops,
                              shifted.value.hop.public_key \o incipient.payload),
                 next_key |-> shifted.value.hop.public_key])

\* A from_incipient that forgets to shift the route.
from_incipient_without_shift(incipient, cryptde) ==
    LET next_hop == Route_next_hop(incipient.route, cryptde)
    IN  IF ~next_hop.ok
        THEN Err(<<"Could not decrypt next hop", next_hop.err>>)
        ELSE Ok([live |-> LiveCoresPackage_new(incipient.route, incipient.payload),
                 next_key |-> next_hop.value.public_key])

\* LiveCoresPackage::from_incipient
from_incipient(incipient, cryptde) ==
    LET shifted == Route_shift(incipient.route, cryptde)
    IN  IF ~shifted.ok
        THEN Err(<<"Could not decrypt next hop", shifted.err>>)
        ELSE Ok([live |-> LiveCoresPackage_new(shifted.value.hops, incipient.payload),
                 next_key |-> shifted.value.hop.public_key])

\* A to_expired that shifts the route instead of peeking at it.
to_expired_consuming_route(self, immediate_neighbor_ip, cryptde) ==
    LET shifted == Route_shift(self.route, cryptde)
        decoded_payload == decodex(cryptde, self.payload)
    IN  IF ~shifted.ok THEN Err(shifted.err)
        ELSE IF ~decoded_payload.ok THEN decoded_payload
        ELSE Ok(ExpiredCoresPackage_new(immediate_neighbor_ip,
                                        shifted.value.hop.consuming_wallet,
                                        shifted.value.hops,
                                        decoded_payload.value,
                                        Len(self.payload)))

\* A to_expired that strips the key off the payload without checking that it
\* is the local key.
to_expired_trusting_payload(self, immediate_neighbor_ip, cryptde) ==
    LET top_hop == Route_next_hop(self.route, cryptde)
        decoded_payload ==
            IF Len(self.payload) >= Len(cryptde)
            THEN MessageType_deserialize(Suffix(self.payload, Len(cryptde)))
            ELSE Err("OpeningFailed")
    IN  IF ~top_hop.ok THEN Err(top_hop.err)
        ELSE IF ~decoded_payload.ok THEN decoded_payload
        ELSE Ok(ExpiredCoresPackage_new(immediate_neighbor_ip,
                                        top_hop.value.consuming_wallet,
                                        self.route,
                                        decoded_payload.value,
                                        Len(self.payload)))

\* A to_expired that decodes the payload before it looks at the route.
to_expired_decoding_first(self, immediate_neighbor_ip, cryptde) ==
    LET top_hop == Route_next_hop(self.route, cryptde)
        decoded_payload == decodex(cryptde, self.payload)
    IN  IF ~decoded_payload.ok THEN decoded_payload
        ELSE IF ~top_hop.ok THEN Err(top_hop.err)
        ELSE Ok(ExpiredCoresPackage_new(immediate_neighbor_ip,
                                        top_hop.value.consuming_wallet,
                                        self.route,
                                        decoded_payload.value,
                                        Len(self.payload)))

\* A to_expired that reports the length of the decoded message.
to_expired_measuring_decoded(self, immediate_neighbor_ip, cryptde) ==
    LET top_hop == Route_next_hop(self.route, cryptde)
        decoded_payload == decodex(cryptde, self.payload)
    IN  IF ~top_hop.ok THEN Err(top_hop.err)
        ELSE IF ~decoded_payload.ok THEN decoded_payload
        ELSE Ok(ExpiredCoresPackage_new(immediate_neighbor_ip,
                                        top_hop.value.consuming_wallet,
                                        self.route,
                                        decoded_payload.value,
                                        Len(MessageType_serialize(decoded_payload.value))))

\* LiveCoresPackage::to_expired
to_expired(self, immediate_neighbor_ip, cryptde) ==
    LET top_hop == Route_next_hop(self.route, cryptde)
        decoded_payload == decodex(cryptde, self.payload)
    IN  IF ~top_hop.ok THEN Err(top_hop.err)
        ELSE IF ~decoded_payload.ok THEN decoded_payload
        ELSE Ok(ExpiredCoresPackage_new(immediate_neighbor_ip,
                                        top_hop.value.consuming_wallet,
                                        self.route,
                                        decoded_payload.value,
                                        Len(self.payload)))

\* The wire form of a LiveCoresPackage: the count of hops, each hop and then
\* the payload as length-prefixed byte strings.
RECURSIVE CryptDatas_serialize(_)
CryptDatas_serialize(blobs) ==
    IF blobs = <<>> THEN <<>>
    ELSE <<Len(blobs[1])>> \o blobs[1] \o CryptDatas_serialize(Tail(blobs))

\* A serializer that leaves an empty payload out.
LiveCoresPackage_serialize_omitting_empty_payload(package) ==
    <<Len(package.route)>> \o CryptDatas_serialize(package.route)
        \o (IF package.payload = <<>> THEN <<>>
            ELSE <<Len(package.payload)>> \o package.payload)

\* serde serialization of LiveCoresPackage
LiveCoresPackage_serialize(package) ==
    <<Len(package.route)>> \o CryptDatas_serialize(package.route)
        \o <<Len(package.payload)>> \o package.payload

\* Reads `count` length-prefixed byte strings off the front of `bytes`.
RECURSIVE CryptDatas_deserialize(_, _)
CryptDatas_deserialize(bytes, count) ==
    IF count = 0 THEN Ok([blobs |-> <<>>, rest |-> bytes])
    ELSE IF Len(bytes) = 0 \/ Len(bytes) < 1 + bytes[1] THEN Err("SerializationError")
    ELSE LET more == CryptDatas_deserialize(Suffix(bytes, 1 + bytes[1]), count - 1)
         IN  IF ~more.ok THEN more
             ELSE Ok([blobs |-> <<SubSeq(bytes, 2, 1 + bytes[1])>> \o more.value.blobs,
                      rest |-> more.value.rest])

\* serde deserialization of LiveCoresPackage
LiveCoresPackage_deserialize(bytes) ==
    IF Len(bytes) = 0 THEN Err("SerializationError")
    ELSE LET hops == CryptDatas_deserialize(Tail(bytes), bytes[1])
         IN  IF ~hops.ok THEN hops
             ELSE IF Len(hops.value.rest) = 0
                     \/ Len(hops.value.rest) # 1 + hops.value.rest[1]
             THEN Err("SerializationError")
             ELSE Ok(LiveCoresPackage_new(hops.value.blobs, Tail(hops.value.rest)))

(***************************************************************************)
(* A package travelling from node to node.                                 *)
(***************************************************************************)
\* The originator and the target of a route segment, and the relays between
\* them; the empty list stands for Route { hops: vec![] }.
OnionNodeLists == {<<>>} \cup UNION {[1..n -> NodeKeys] : n \in 2..MaxRouteNodes}

OnionMessages ==
    {DnsResolveFailed([stream_key |-> k]) : k \in StreamKeys}
        \cup {ClientResponse([stream_key |-> "stream1",
                              last_data |-> TRUE,
                              sequence_number |-> MaxSequenceNumber,
                              data |-> d]) : d \in DataValues}

\* The key the payload is encrypted to: the last node of the route.
ExitKey(nodes) == IF nodes = <<>> THEN <<3, 4>> ELSE nodes[Len(nodes)]

\* What the originator builds: a one-way route over the nodes and the
\* incipient package that carries the message to the last of them.
Journey(nodes, consuming_wallet, target_component, message) ==
    [nodes |-> nodes,
     consuming_wallet |-> consuming_wallet,
     target_component |-> target_component,
     message |-> message,
     incipient |-> IncipientCoresPackage_new(
                       Route_one_way(nodes, target_component, consuming_wallet),
                       message,
                       ExitKey(nodes)).value]

\* Packages with no route at all.
RawPackages ==
    {LiveCoresPackage_new(<<>>, <<>>),
     LiveCoresPackage_new(<<>>, LocalKey),
     LiveCoresPackage_new(<<>>, encodex(<<3, 4>>, DnsResolveFailed([stream_key |-> "stream1"])).value)}

OnionInit ==
    /\ ProxyClientInit
    /\ dns_servers # <<>>
    /\ InspectorIdle
    /\ position = 0
    /\ transform = [op |-> "none"]
    /\ \/ /\ \E nodes \in OnionNodeLists, consuming_wallet \in {None, Some("consuming")},
                target_component \in {"Neighborhood", "ProxyClient"},
                message \in OnionMessages :
                 journey = Some(Journey(nodes, consuming_wallet, target_component, message))
          /\ live = None
       \/ /\ journey = None
          /\ live \in {Some(package) : package \in RawPackages}

\* The originator (whose cryptde is given) makes its incipient package live.
FromIncipient(cryptde) ==
    /\ journey # None
    /\ transform.op = "none"
    /\ LET result == from_incipient(journey[1].incipient, cryptde)
       IN  /\ transform' = [op |-> "from_incipient", cryptde |-> cryptde, at |-> position,
                            input |-> journey[1].incipient, result |-> result]
           /\ live' = IF result.ok THEN Some(result.value.live) ELSE None
           /\ position' = IF result.ok THEN 1 ELSE 0
    /\ UNCHANGED <<journey, exit_actor, inspector>>

\* A node relays the package it holds; the input package is consumed.
ToNextLive(cryptde) ==
    /\ live # None
    /\ LET result == to_next_live(live[1], cryptde)
       IN  /\ transform' = [op |-> "to_next_live", cryptde |-> cryptde, at |-> position,
                            input |-> live[1], result |-> result]
           /\ live' = IF result.ok THEN Some(result.value.next_live) ELSE None
           /\ position' = IF result.ok THEN position + 1 ELSE position
    /\ UNCHANGED <<journey, exit_actor, inspector>>

\* A node opens the package it holds; the input package is consumed.
ToExpired(cryptde) ==
    /\ live # None
    /\ transform' = [op |-> "to_expired", cryptde |-> cryptde, at |-> position,
                     input |-> live[1],
                     result |-> to_expired(live[1], "1.2.3.4", cryptde)]
    /\ live' = None
    /\ UNCHANGED <<journey, position, exit_actor, inspector>>

\* The package goes over the wire to the next node.
Transmit ==
    /\ live # None
    /\ transform.op # "transmit"
    /\ LET result == LiveCoresPackage_deserialize(LiveCoresPackage_serialize(live[1]))
       IN  /\ transform' = [op |-> "transmit", cryptde |-> EmptyKey, at |-> position,
                            input |-> live[1], result |-> result]
           /\ live' = IF result.ok THEN Some(result.value) ELSE None
    /\ UNCHANGED <<journey, position, exit_actor, inspector>>

(***************************************************************************)
(* The resolv.conf inspector                                               *)
(* (dns_utility/src/dns_inspector/resolv_conf_dns_modifier.rs).            *)
(* File contents are strings of symbols: the word nameserver, a blank, a   *)
(* line feed, the comment sign and address-shaped words.                   *)
(***************************************************************************)
MaxLines == 3

Nameserver == "nameserver"
Blank == " "
LineFeed == "\n"
Hash == "#"
ValidIps == {"8.8.8.8", "1.1.1.1"}
BadIp == "300.301.302.303"

\* The regex class \s: blanks and line feeds alike.
IsWhitespace(c) == c \in {Blank, LineFeed}

\* Where a greedy \s* starting at index i stops.
SpaceEnd(s, i) ==
    CHOOSE j \in i..(Len(s) + 1) :
        /\ \A k \in i..(j - 1) : IsWhitespace(s[k])
        /\ j = Len(s) + 1 \/ ~IsWhitespace(s[j])

\* Where a greedy [^\s]* (or [^\s#]* when `stops` holds the #) starting at
\* index i stops.
WordEnd(s, i, stops) ==
    CHOOSE j \in i..(Len(s) + 1) :
        /\ \A k \in i..(j - 1) : ~IsWhitespace(s[k]) /\ s[k] \notin stops
        /\ j = Len(s) + 1 \/ IsWhitespace(s[j]) \/ s[j] \in stops

\* The match of (^|\n)\s*(nameserver\s+[^\s]*) that begins at index i: the
\* bounds of its second group, or None.
ActiveNameserverMatch(s, i) ==
    LET after_anchor == IF i = 1 THEN 1
                        ELSE IF i <= Len(s) /\ s[i] = LineFeed THEN i + 1
                        ELSE 0
        word == IF after_anchor = 0 THEN 0 ELSE SpaceEnd(s, after_anchor)
    IN  IF /\ after_anchor # 0
           /\ word + 1 <= Len(s)
           /\ s[word] = Nameserver
           /\ IsWhitespace(s[word + 1])
        THEN Some([start |-> word,
                   end |-> WordEnd(s, SpaceEnd(s, word + 1), {})])
        ELSE None

\* Regex::captures_iter: the leftmost matches that do not overlap, from `from`.
RECURSIVE captures_iter(_, _)
captures_iter(s, from) ==
    LET starts == {i \in from..Len(s) : ActiveNameserverMatch(s, i) # None}
    IN  IF starts = {} THEN <<>>
        ELSE LET first == CHOOSE i \in starts : \A other \in starts : i <= other
                 group == ActiveNameserverMatch(s, first)[1]
             IN  <<[line |-> SubSeq(s, group.start, group.end - 1),
                    start |-> group.start - 1]>>
                     \o captures_iter(s, group.end)

\* ResolvConfDnsModifier::active_nameservers
active_nameservers(contents) == captures_iter(contents, 1)

BadEntryFormat(entry) == [error |-> "BadEntryFormat", entry |-> entry]
NotConnected == [error |-> "NotConnected", entry |-> <<>>]
InvalidConfigFile(message) == [error |-> "InvalidConfigFile", entry |-> message]

\* ResolvConfDnsModifier::nameserver_line_to_ip_str, with the regex
\* ^\s*nameserver\s+([^\s#]*)
nameserver_line_to_ip_str(nameserver_line) ==
    LET word == SpaceEnd(nameserver_line, 1)
    IN  IF /\ word + 1 <= Len(nameserver_line)
           /\ nameserver_line[word] = Nameserver
           /\ IsWhitespace(nameserver_line[word + 1])
        THEN LET first == SpaceEnd(nameserver_line, word + 1)
             IN  Ok(SubSeq(nameserver_line, first,
                           WordEnd(nameserver_line, first, {Hash}) - 1))
        ELSE Err(BadEntryFormat(nameserver_line))

\* IpAddr::from_str: a string is an address when it is one address word.
IpAddr_from_str(ip_str) ==
    IF Len(ip_str) = 1 /\ ip_str[1] \in ValidIps
    THEN Ok(ip_str[1])
    ELSE Err("AddrParseError")

\* ResolvConfDnsModifier::check_disconnected
check_disconnected(ip_vec) == IF ip_vec = <<>> THEN Err(NotConnected) ELSE Ok(<<>>)

\* The triple inspect_contents makes of one active nameserver line.
Triple(nameserver_line) ==
    LET ip_str == nameserver_line_to_ip_str(nameserver_line)
    IN  IF ip_str.ok
        THEN IF IpAddr_from_str(ip_str.value).ok
             THEN <<Some(ip_str.value), Some(IpAddr_from_str(ip_str.value).value), None>>
             ELSE <<Some(ip_str.value), None, Some(BadEntryFormat(ip_str.value))>>
        ELSE <<None, None, Some(ip_str.err)>>

IsSuccess(triple) == triple[3] = None
IsFailure(triple) == triple[3] # None

\* ResolvConfDnsModifier::inspect_contents
inspect_contents(contents) ==
    LET triples == [i \in 1..Len(active_nameservers(contents)) |->
                       Triple(active_nameservers(contents)[i].line)]
        successes == SelectSeq(triples, IsSuccess)
        failures == SelectSeq(triples, IsFailure)
    IN  IF successes = <<>> /\ failures = <<>> THEN Err(NotConnected)
        ELSE IF successes = <<>> THEN Err(failures[1][3][1])
        ELSE LET ip_vec == [i \in 1..Len(successes) |-> successes[i][2][1]]
             IN  IF ~check_disconnected(ip_vec).ok
                 THEN check_disconnected(ip_vec)
                 ELSE Ok(ip_vec)

\* ResolvConfDnsModifier::open_resolv_conf(false): the contents of the file,
\* or why it could not be read.
open_resolv_conf(file) ==
    CASE file.kind = "missing" ->
             Err(InvalidConfigFile("/etc/resolv.conf was not found"))
      [] file.kind = "unreadable" ->
             Err(InvalidConfigFile("/etc/resolv.conf is not readable"))
      [] file.kind \in {"directory", "not_utf8"} ->
             Err(InvalidConfigFile("/etc/resolv.conf is not a UTF-8 text file"))
      [] file.kind = "file" -> Ok(file.contents)

\* DnsModifier::inspect
inspect(file) ==
    IF open_resolv_conf(file).ok
    THEN inspect_contents(open_resolv_conf(file).value)
    ELSE open_resolv_conf(file)

\* The lines a resolv.conf of the model is made of.
LineShapes ==
    {<<>>,
     <<Nameserver>>,
     <<Nameserver, Blank>>,
     <<Nameserver, Blank, "8.8.8.8">>,
     <<Nameserver, Blank, "1.1.1.1">>,
     <<Nameserver, Blank, BadIp>>,
     <<Blank, Nameserver, Blank, "8.8.8.8", Blank, Hash, Blank, "comment">>,
     <<Nameserver, Blank, "1.1.1.1", Blank, "8.8.8.8">>,
     <<Hash, Nameserver, Blank, "1.1.1.1">>,
     <<"8.8.8.8">>}

RECURSIVE JoinLines(_)
JoinLines(lines) ==
    IF lines = <<>> THEN <<>>
    ELSE IF Len(lines) = 1 THEN lines[1]
    ELSE lines[1] \o <<LineFeed>> \o JoinLines(Tail(lines))

\* Files of up to MaxLines lines, with or without a final line feed.
FileContents ==
    LET texts == {JoinLines(lines) :
                     lines \in UNION {[1..n -> LineShapes] : n \in 0..MaxLines}}
    IN  texts \cup {text \o <<LineFeed>> : text \in texts}

ResolvConfs ==
    {[kind |-> k, contents |-> <<>>] :
        k \in {"missing", "unreadable", "directory", "not_utf8"}}
        \cup {[kind |-> "file", contents |-> c] : c \in FileContents}

InspectorInit ==
    /\ ProxyClientInit
    /\ dns_servers # <<>>
    /\ OnionIdle
    /\ resolv_conf \in ResolvConfs
    /\ inspection = None

\* One call of inspect() on the file.
Inspect ==
    /\ inspection = None
    /\ inspection' = Some(inspect(resolv_conf))
    /\ UNCHANGED <<resolv_conf, exit_actor, onion>>

(***************************************************************************)
(* Specifications.                                                         *)
(***************************************************************************)
Next ==
    \/ HandleBind
    \/ \E msg \in ExpiredCoresPackages : HandleRequest(msg)
    \/ \E msg \in InboundServerDatas : HandleInboundServerData(msg)
    \/ \E msg \in DnsResolveFailures : HandleDnsResolveFailure(msg)

\* The Exit Actor with live peers.
Spec == Init /\ [][Next]_vars

\* Under peer faults the requests differ in what decides a send: the wallet,
\* the destination key and the stream key.
PeerFaultRequests ==
    {msg \in ExpiredCoresPackages :
        /\ msg.remaining_route = NewReturnRoute
        /\ ~msg.payload.sequenced_packet.last_data}

NextPeerFaults ==
    \/ HandleBind
    \/ \E msg \in PeerFaultRequests : HandleRequest(msg)
    \/ \E msg \in InboundServerDatas : HandleInboundServerData(msg)
    \/ \E msg \in DnsResolveFailures : HandleDnsResolveFailure(msg)
    \/ HopperDies
    \/ AccountantDies

\* The Exit Actor whose hopper and accountant may die at any time.
SpecPeerFaults == Init /\ [][NextPeerFaults]_vars

OnionNext ==
    \/ \E cryptde \in NodeKeys : FromIncipient(cryptde)
    \/ \E cryptde \in NodeKeys : ToNextLive(cryptde)
    \/ \E cryptde \in NodeKeys : ToExpired(cryptde)
    \/ Transmit

\* Packages built by an originator, relayed, transmitted and opened by nodes.
SpecOnion == OnionInit /\ [][OnionNext]_vars

InspectorNext == Inspect

\* inspect() applied to every resolv.conf of the model.
SpecInspector == InspectorInit /\ [][InspectorNext]_vars

(***************************************************************************)
(* Properties of the Exit Actor.                                           *)
(***************************************************************************)
IsBound == to_hopper # None /\ to_accountant # None /\ pool # None

\* The step is one run of the named handler, on the event now in `handled`.
RequestStep ==
    handled'.type = "ExpiredCoresPackage" /\ HandleRequest(handled'.msg)
InboundStep ==
    handled'.type = "InboundServerData" /\ HandleInboundServerData(handled'.msg)
DnsFailureStep ==
    handled'.type = "DnsResolveFailure" /\ HandleDnsResolveFailure(handled'.msg)

\* The acceptance policy as the specification words it.
PolicySatisfied(msg) ==
    msg.consuming_wallet # None \/ msg.payload.originator_public_key = LocalKey

\* A context is stored under the request's stream key.
ContextStoredFor(msg) ==
    /\ msg.payload.stream_key \in DOMAIN stream_contexts'
    /\ stream_contexts'[msg.payload.stream_key].return_route = msg.remaining_route
    /\ stream_contexts'[msg.payload.stream_key].payload_destination_key =
           msg.payload.originator_public_key
    /\ stream_contexts'[msg.payload.stream_key].consuming_wallet = msg.consuming_wallet

HandedToPool(msg) ==
    pool_out' = <<[payload |-> msg.payload, consuming_wallet |-> msg.consuming_wallet]>>

AcceptedExactlyWhenPolicy(msg) ==
    IF PolicySatisfied(msg)
    THEN ContextStoredFor(msg) /\ HandedToPool(msg)
    ELSE stream_contexts' = stream_contexts /\ pool_out' = <<>>

\* C1 as stated: whenever the request handler runs, a context is stored and
\* the payload handed to the pool exactly when the wallet is Some or the
\* originator key is the local key.
C1_AcceptIffPolicy ==
    [][RequestStep => AcceptedExactlyWhenPolicy(handled'.msg)]_vars

\* C1 amended: once Bind has been handled, the request handler stores a
\* context and hands the payload to the pool exactly when the wallet is Some
\* or the originator key is the local key; before Bind nothing is ever stored
\* or handed to the pool.
C1_BoundAcceptIffPolicy ==
    [][RequestStep =>
           IF pool # None
           THEN AcceptedExactlyWhenPolicy(handled'.msg)
           ELSE stream_contexts' = stream_contexts /\ pool_out' = <<>>]_vars

\* A zero-hop request without wallet was accepted: stored and handed over.
C1_Witness ==
    /\ handled.type = "ExpiredCoresPackage"
    /\ handled.msg.consuming_wallet = None
    /\ handled.msg.payload.originator_public_key = LocalKey
    /\ handled.msg.payload.stream_key \in DOMAIN stream_contexts
    /\ pool_out = <<[payload |-> handled.msg.payload, consuming_wallet |-> None]>>

\* The last handler relayed an InboundServerData to the hopper.
RelayedResponse == handled.type = "InboundServerData" /\ hopper_out # <<>>

\* C2: every relayed response is packaged over the return route of the most
\* recently accepted request for its stream key; in particular after accepted
\* requests carrying R1 and then R2 (R1 # R2) for the key, over R2 and not R1.
C2_NewestRouteWins ==
    RelayedResponse =>
        LET key == handled.msg.stream_key
        IN  /\ Len(hopper_out) = 1
            /\ latest_route[key] = Some(hopper_out[1].route)
            /\ (rerouted # None /\ rerouted[1].stream_key = key) =>
                   /\ hopper_out[1].route = rerouted[1].new_route
                   /\ hopper_out[1].route # rerouted[1].old_route

\* A response was relayed over the new route after the key's return route
\* had been changed from the old one.
C2_Witness ==
    /\ RelayedResponse
    /\ rerouted = Some([stream_key |-> handled.msg.stream_key,
                        old_route |-> OldReturnRoute,
                        new_route |-> NewReturnRoute])
    /\ hopper_out[1].route = NewReturnRoute

C4_UnsolicitedIsolation ==
    [][(InboundStep /\ handled'.msg.stream_key \notin DOMAIN stream_contexts) =>
           /\ hopper_out' = <<>>
           /\ accountant_out' = <<>>
           /\ stream_contexts' = stream_contexts]_vars

\* An unsolicited response was ignored while another stream had a context.
C4_Witness ==
    /\ handled.type = "InboundServerData"
    /\ handled.msg.stream_key \notin DOMAIN stream_contexts
    /\ DOMAIN stream_contexts # {}
    /\ Len(log) = 1
    /\ log[1].text = "Received unsolicited response: ignoring"
    /\ hopper_out = <<>>
    /\ accountant_out = <<>>

\* C5: when the response package cannot be built (the context's destination
\* key is empty), nothing goes to the hopper or the accountant and the actor
\* does not panic.
C5_FailedPackageDropped ==
    [][(/\ InboundStep
        /\ handled'.msg.stream_key \in DOMAIN stream_contexts
        /\ stream_contexts[handled'.msg.stream_key].payload_destination_key = EmptyKey) =>
           /\ hopper_out' = <<>>
           /\ accountant_out' = <<>>
           /\ panicked' = NoPanic]_vars

\* A chunk of a paying stream with an empty destination key was dropped.
C5_Witness ==
    /\ handled.type = "InboundServerData"
    /\ handled.msg.stream_key \in DOMAIN stream_contexts
    /\ stream_contexts[handled.msg.stream_key].payload_destination_key = EmptyKey
    /\ stream_contexts[handled.msg.stream_key].consuming_wallet # None
    /\ Len(log) = 1
    /\ log[1].text = "Could not create CORES package for response - ignoring"
    /\ hopper_out = <<>>
    /\ accountant_out = <<>>
    /\ panicked = NoPanic

\* C6: after an InboundServerData with last_data = true has been handled for a
\* stream key that had a context, the key has no context.
C6_LastDataRemovesContext ==
    [][(/\ InboundStep
        /\ handled'.msg.last_data
        /\ handled'.msg.stream_key \in DOMAIN stream_contexts) =>
           handled'.msg.stream_key \notin DOMAIN stream_contexts']_vars

\* C7: a DnsResolveFailure for a stream key with a context sends exactly one
\* package to the hopper, a DnsResolveFailed for that key over the context's
\* return route encrypted to its destination key, and nothing to the accountant.
C7_DnsFailureForwarded ==
    [][(DnsFailureStep /\ handled'.msg.stream_key \in DOMAIN stream_contexts) =>
           LET key == handled'.msg.stream_key
               stream_context == stream_contexts[key]
           IN  /\ Len(hopper_out') = 1
               /\ hopper_out'[1].route = stream_context.return_route
               /\ decodex(stream_context.payload_destination_key, hopper_out'[1].payload) =
                      Ok([type |-> "DnsResolveFailed", stream_key |-> key])
               /\ accountant_out' = <<>>]_vars

\* C8: the DnsResolveFailure handler leaves the stream-context map as it was.
C8_DnsFailureKeepsContexts ==
    [][DnsFailureStep => stream_contexts' = stream_contexts]_vars

\* A DNS failure was forwarded and the stream's context is still there.
C8_Witness ==
    /\ handled.type = "DnsResolveFailure"
    /\ hopper_out # <<>>
    /\ handled.msg.stream_key \in DOMAIN stream_contexts

\* C9: a DnsResolveFailure for a stream key without context only logs an
\* error: nothing is sent, nothing changes, no panic, bound or not.
C9_DnsFailureUnknownStream ==
    [][(DnsFailureStep /\ handled'.msg.stream_key \notin DOMAIN stream_contexts) =>
           /\ hopper_out' = <<>>
           /\ accountant_out' = <<>>
           /\ pool_out' = <<>>
           /\ panicked' = NoPanic
           /\ log' = <<[level |-> "ERROR",
                        text |-> "DNS resolution for nonexistent stream failed.",
                        args |-> <<handled'.msg.stream_key>>]>>
           /\ UNCHANGED <<stream_contexts, bindings, config>>]_vars

\* The failure of an unknown stream was logged by an actor not yet bound.
C9_Witness ==
    /\ handled.type = "DnsResolveFailure"
    /\ to_hopper = None
    /\ panicked = NoPanic
    /\ Len(log) = 1
    /\ log[1].level = "ERROR"
    /\ log[1].text = "DNS resolution for nonexistent stream failed."
    /\ hopper_out = <<>>

\* C10: a bound Exit Actor whose sends all succeed never fails fatally.
C10_BoundActorNeverPanics ==
    IsBound => panicked = NoPanic

\* C11: an InboundServerData or DnsResolveFailure for a stream key that had a
\* request accepted, with no last_data response handled for the key since,
\* finds the key's context and is not treated as unsolicited or nonexistent.
C11_RequestInstallsBeforeResponse ==
    [][((InboundStep \/ DnsFailureStep) /\ handled'.msg.stream_key \in open_streams) =>
           /\ handled'.msg.stream_key \in DOMAIN stream_contexts
           /\ \A i \in 1..Len(log') :
                  log'[i].text \notin {"Received unsolicited response: ignoring",
                                      "DNS resolution for nonexistent stream failed."}]_vars

\* A response of an open stream was relayed after another stream's last chunk
\* had been handled.
C11_Witness ==
    /\ RelayedResponse
    /\ ~handled.msg.last_data
    /\ handled.msg.stream_key \in open_streams
    /\ \E k \in StreamKeys : latest_route[k] # None /\ k \notin open_streams

\* C12: ProxyClient::new with an empty dns_servers list fails fatally and no
\* actor ever handles a message; with a non-empty list the new actor has an
\* empty stream-context map and no hopper, accountant or pool bound.
C12_NewRequiresDnsServers ==
    /\ dns_servers = <<>> =>
           /\ handled.type = "new"
           /\ panicked = "Proxy Client requires at least one DNS server IP address after the --dns_servers parameter"
    /\ (handled.type = "new" /\ dns_servers # <<>>) =>
           /\ panicked = NoPanic
           /\ DOMAIN stream_contexts = {}
           /\ to_hopper = None /\ to_accountant = None /\ pool = None

\* Construction with an empty DNS server list has failed.
C12_Witness ==
    /\ handled.type = "new"
    /\ dns_servers = <<>>
    /\ panicked # NoPanic

\* The handler's send to the hopper is attempted: the key has a context whose
\* package can be built.
HopperSendAttempted(msg) ==
    /\ msg.stream_key \in DOMAIN stream_contexts
    /\ stream_contexts[msg.stream_key].payload_destination_key # EmptyKey

\* C13: when the send to the hopper fails (response or DNS-failure package)
\* the actor fails fatally and, for a response, no accountant report is
\* emitted; when the send of the exit report to the accountant fails the actor
\* fails fatally.
C13_DeadPeerIsFatal ==
    [][/\ ((InboundStep \/ DnsFailureStep) /\ HopperSendAttempted(handled'.msg)
                /\ ~hopper_alive) =>
              /\ panicked' = "Hopper is dead"
              /\ hopper_out' = <<>>
              /\ accountant_out' = <<>>
       /\ (InboundStep /\ HopperSendAttempted(handled'.msg) /\ hopper_alive
                /\ stream_contexts[handled'.msg.stream_key].consuming_wallet # None
                /\ ~accountant_alive) =>
              /\ panicked' = "Accountant is dead"
              /\ accountant_out' = <<>>]_vars

\* The response of a paying stream could not be sent to the dead hopper: the
\* actor died and reported nothing to the live accountant.
C13_Witness ==
    /\ handled.type = "InboundServerData"
    /\ panicked = "Hopper is dead"
    /\ accountant_alive
    /\ stream_contexts[handled.msg.stream_key].consuming_wallet # None
    /\ accountant_out = <<>>

(***************************************************************************)
(* Properties of the LiveCoresPackage transforms.                          *)
(***************************************************************************)
Garbage(n) == [i \in 1..n |-> GarbageByte]

\* The last transform was the named one and returned Ok.
Succeeded(op) == transform.op = op /\ transform.result.ok

\* The route a successful shifting transform left.
ShiftedRoute ==
    IF transform.op = "from_incipient"
    THEN transform.result.value.live.route
    ELSE transform.result.value.next_live.route

\* C14: every successful shift (from_incipient, to_next_live) leaves a route
\* with as many hops as before: the old hops but the top one, then one hop of
\* 0x34 bytes as long as the removed hop; so a travelling package always has
\* as many hops as the route the originator built.
C14_RouteLengthPreserved ==
    /\ (Succeeded("from_incipient") \/ Succeeded("to_next_live")) =>
           LET before == transform.input.route
               after == ShiftedRoute
           IN  /\ Len(after) = Len(before)
               /\ \A i \in 1..(Len(before) - 1) : after[i] = before[i + 1]
               /\ after[Len(after)] = Garbage(Len(before[1]))
    /\ (journey # None /\ live # None) =>
           Len(live[1].route) = Len(journey[1].incipient.route)

\* A package has been shifted twice: its last two hops are garbage.
C14_Witness ==
    /\ Succeeded("to_next_live")
    /\ position = 2
    /\ Len(live[1].route) = 3
    /\ live[1].route[2] = Garbage(Len(live[1].route[2]))
    /\ live[1].route[3] = Garbage(Len(transform.input.route[1]))

C16_ToExpiredKeepsRoute ==
    Succeeded("to_expired") =>
        LET expired == transform.result.value
            package == transform.input
        IN  /\ expired.remaining_route = package.route
            /\ Route_next_hop(package.route, transform.cryptde).ok
            /\ expired.consuming_wallet =
                   Route_next_hop(package.route, transform.cryptde).value.consuming_wallet
            /\ expired.immediate_neighbor_ip = "1.2.3.4"
            /\ decodex(transform.cryptde, package.payload) = Ok(expired.payload)
            /\ journey # None => expired.consuming_wallet = journey[1].consuming_wallet

\* The exit of a three-node route has opened the package of a paying client.
C16_Witness ==
    /\ Succeeded("to_expired")
    /\ position = 2
    /\ Len(transform.result.value.remaining_route) = 3
    /\ transform.result.value.consuming_wallet = Some("consuming")
    /\ transform.result.value.remaining_route[3] = Garbage(Len(transform.input.route[3]))

\* C17: on a route over at least two nodes, from_incipient with the
\* originator's key, to_next_live with each relay's key and to_expired with
\* the exit's key all succeed, each names the next node, and the expired
\* package carries the original message and a route as long as the one built.
C17_OnionRoundTrip ==
    (journey # None /\ Len(journey[1].nodes) >= 2) =>
        LET nodes == journey[1].nodes
            k == Len(nodes)
        IN  /\ (transform.op = "from_incipient" /\ transform.cryptde = nodes[1]) =>
                   /\ transform.result.ok
                   /\ transform.result.value.next_key = nodes[2]
            /\ (transform.op = "to_next_live" /\ transform.at \in 1..(k - 2)
                    /\ transform.cryptde = nodes[transform.at + 1]) =>
                   /\ transform.result.ok
                   /\ transform.result.value.next_hop.public_key = nodes[transform.at + 2]
            /\ (transform.op = "to_expired" /\ transform.at = k - 1
                    /\ transform.cryptde = nodes[k]) =>
                   /\ transform.result.ok
                   /\ transform.result.value.payload = journey[1].message
                   /\ Len(transform.result.value.remaining_route) =
                          Len(journey[1].incipient.route)

\* A response with data has made the whole trip over three nodes.
C17_Witness ==
    /\ Succeeded("to_expired")
    /\ journey # None
    /\ Len(journey[1].nodes) = 3
    /\ transform.at = 2
    /\ journey[1].message.type = "ClientResponse"
    /\ Len(journey[1].message.sequenced_packet.data) > 0
    /\ transform.result.value.payload = journey[1].message

\* C18: a successful from_incipient returns the incipient route shifted once
\* with the caller's key, the incipient's encrypted payload as it was, and the
\* public key of the hop shifted off; it fails exactly when the shift fails.
C18_FromIncipientShiftsOnce ==
    transform.op = "from_incipient" =>
        LET incipient == transform.input
            shifted == Route_shift(incipient.route, transform.cryptde)
        IN  /\ transform.result.ok = shifted.ok
            /\ transform.result.ok =>
                   /\ transform.result.value.live.route = shifted.value.hops
                   /\ transform.result.value.live.payload = incipient.payload
                   /\ transform.result.value.next_key = shifted.value.hop.public_key
                   /\ journey[1].incipient = incipient

\* The originator of a three-node route has made its package live.
C18_Witness ==
    /\ Succeeded("from_incipient")
    /\ Len(journey[1].nodes) = 3
    /\ transform.result.value.next_key = journey[1].nodes[2]
    /\ transform.result.value.next_key # transform.cryptde

\* C19: to_expired with the cryptde of a node whose key is not the key the
\* payload was encrypted to never returns an ExpiredCoresPackage, and a
\* successful to_next_live passes the payload on byte for byte.
C19_OnlyExitOpensPayload ==
    /\ (transform.op = "to_expired" /\ journey # None
            /\ transform.cryptde # ExitKey(journey[1].nodes)) =>
           ~transform.result.ok
    /\ Succeeded("to_next_live") =>
           transform.result.value.next_live.payload = transform.input.payload

\* A relay that could read its own hop tried to open the payload and failed.
C19_Witness ==
    /\ transform.op = "to_expired"
    /\ journey # None
    /\ transform.cryptde # ExitKey(journey[1].nodes)
    /\ Route_next_hop(transform.input.route, transform.cryptde).ok
    /\ ~transform.result.ok
    /\ transform.result.err = "OpeningFailed"

\* C20: deserializing the serialized form of a package gives the package back.
C20_SerializationFixpoint ==
    transform.op = "transmit" => transform.result = Ok(transform.input)

\* A package with two garbage hops has gone over the wire unchanged.
C20_Witness ==
    /\ Succeeded("transmit")
    /\ position = 2
    /\ Len(transform.input.route) = 3
    /\ live = Some(transform.input)

\* C31: a successful to_next_live passes the input's payload on unchanged and
\* returns the hop decrypted from the input's former top hop, which names the
\* next peer and the consuming wallet of the route.
C31_ToNextLiveKeepsPayload ==
    Succeeded("to_next_live") =>
        /\ transform.result.value.next_live.payload = transform.input.payload
        /\ LiveHop_decode(transform.cryptde, transform.input.route[1]) =
               Ok(transform.result.value.next_hop)
        /\ journey # None =>
               transform.result.value.next_hop.consuming_wallet = journey[1].consuming_wallet

\* The first relay of a three-node route has passed on a response with data.
C31_Witness ==
    /\ Succeeded("to_next_live")
    /\ journey # None
    /\ Len(journey[1].nodes) = 3
    /\ transform.at = 1
    /\ journey[1].message.type = "ClientResponse"
    /\ Len(journey[1].message.sequenced_packet.data) > 0
    /\ live[1].payload = journey[1].incipient.payload
    /\ transform.result.value.next_hop.public_key = journey[1].nodes[3]

\* C32: on a route without hops to_next_live fails with EmptyRoute,
\* from_incipient with "Could not decrypt next hop: EmptyRoute" and to_expired
\* with "EmptyRoute" whatever the payload, and no package is left.
C32_EmptyRouteFails ==
    (transform.op \in {"to_next_live", "from_incipient", "to_expired"}
         /\ transform.input.route = <<>>) =>
        /\ live = None
        /\ transform.op = "to_next_live" => transform.result = Err("EmptyRoute")
        /\ transform.op = "from_incipient" =>
               transform.result = Err(<<"Could not decrypt next hop", "EmptyRoute">>)
        /\ transform.op = "to_expired" => transform.result = Err("EmptyRoute")

\* to_expired has refused a package without route whose payload it could read.
C32_Witness ==
    /\ transform.op = "to_expired"
    /\ transform.input.route = <<>>
    /\ decodex(transform.cryptde, transform.input.payload).ok
    /\ transform.result = Err("EmptyRoute")
    /\ live = None

\* The package has been shifted by every node of its route.
RouteUsedUp == journey # None /\ live # None /\ position >= Len(journey[1].nodes)

\* C33: on a one-way route over n1..nk with wallet w, the hop decrypted at
\* n_i (i < k) names n_(i+1) with wallet w and component Hopper, the hop
\* decrypted at n_k has the empty key, wallet w and the target component, and
\* every hop exposed after that is garbage.
C33_OneWayRouteHops ==
    (journey # None /\ journey[1].nodes # <<>>) =>
        LET nodes == journey[1].nodes
            k == Len(nodes)
            wallet == journey[1].consuming_wallet
        IN  /\ Succeeded("from_incipient") =>
                   /\ transform.cryptde = nodes[1]
                   /\ transform.result.value.next_key = nodes[2]
            /\ (Succeeded("to_next_live") /\ transform.at < k) =>
                   /\ transform.cryptde = nodes[transform.at + 1]
                   /\ transform.result.value.next_hop =
                          IF transform.at + 1 < k
                          THEN LiveHop_new(nodes[transform.at + 2], wallet, "Hopper")
                          ELSE LiveHop_new(EmptyKey, wallet, journey[1].target_component)
            /\ (Succeeded("to_expired") /\ transform.at = k - 1
                    /\ transform.cryptde = nodes[k]) =>
                   Route_next_hop(transform.input.route, transform.cryptde) =
                       Ok(LiveHop_new(EmptyKey, wallet, journey[1].target_component))
            /\ RouteUsedUp =>
                   \A i \in 1..Len(live[1].route) :
                       live[1].route[i] = Garbage(Len(live[1].route[i]))
            /\ (transform.op = "to_next_live" /\ transform.at >= k) => ~transform.result.ok

\* The last node of a three-node route has shifted off the end-of-route hop
\* and only garbage is left.
C33_Witness ==
    /\ Succeeded("to_next_live")
    /\ journey # None
    /\ Len(journey[1].nodes) = 3
    /\ transform.at = 2
    /\ transform.result.value.next_hop =
           LiveHop_new(EmptyKey, Some("consuming"), "ProxyClient")
    /\ \A i \in 1..3 : live[1].route[i] = Garbage(Len(live[1].route[i]))

\* C39: the payload_len of the package to_expired returns is the length of
\* the encrypted payload it was given.
C39_PayloadLenIsEncryptedLength ==
    Succeeded("to_expired") =>
        transform.result.value.payload_len = Len(transform.input.payload)

\* A package was opened whose encrypted payload is longer than its message.
C39_Witness ==
    /\ Succeeded("to_expired")
    /\ transform.result.value.payload_len = Len(transform.input.payload)
    /\ transform.result.value.payload_len >
           Len(MessageType_serialize(transform.result.value.payload))

\* The only line the last handler logged has this text.
LoggedOnly(lines, text) == Len(lines) = 1 /\ lines[1].text = text

\* C24: once a last_data response has been relayed for a stream key and its
\* context removed, the key has no context and every InboundServerData for it
\* is treated as unsolicited (nothing to the hopper, nothing to the
\* accountant) until a request for the key is accepted, which stores a
\* context for the key again.
C24_ClosedStreamIsUnsolicited ==
    [][/\ (InboundStep /\ handled'.msg.stream_key \in closed_streams) =>
              /\ handled'.msg.stream_key \notin DOMAIN stream_contexts
              /\ hopper_out' = <<>>
              /\ accountant_out' = <<>>
              /\ LoggedOnly(log', "Received unsolicited response: ignoring")
       /\ (/\ RequestStep
           /\ handled'.msg.payload.stream_key \in closed_streams
           /\ pool_out' # <<>>) => ContextStoredFor(handled'.msg)
       /\ \A key \in closed_streams' : key \notin DOMAIN stream_contexts']_vars

\* A response for a closed stream was ignored while another stream was open.
C24_Witness ==
    /\ handled.type = "InboundServerData"
    /\ handled.msg.stream_key \in closed_streams
    /\ DOMAIN stream_contexts # {}
    /\ LoggedOnly(log, "Received unsolicited response: ignoring")
    /\ hopper_out = <<>>
    /\ accountant_out = <<>>

\* C25: every exit report names the consuming wallet of the most recently
\* accepted request for the stream key of the response being relayed, and
\* carries the configured exit_service_rate and exit_byte_rate, which no step
\* changes.
C25_ReportNamesLatestWallet ==
    [][/\ \A i \in 1..Len(accountant_out') :
              /\ handled'.type = "InboundServerData"
              /\ latest_accepted[handled'.msg.stream_key] # None
              /\ latest_accepted[handled'.msg.stream_key][1].consuming_wallet =
                     Some(accountant_out'[i].consuming_wallet)
              /\ accountant_out'[i].service_rate = exit_service_rate
              /\ accountant_out'[i].byte_rate = exit_byte_rate
       /\ exit_service_rate' = exit_service_rate
       /\ exit_byte_rate' = exit_byte_rate]_vars

\* A chunk was reported for a stream whose latest request had replaced an
\* earlier one.
C25_Witness ==
    /\ RelayedResponse
    /\ Len(accountant_out) = 1
    /\ rerouted # None
    /\ rerouted[1].stream_key = handled.msg.stream_key
    /\ accountant_out[1].service_rate = exit_service_rate
    /\ accountant_out[1].byte_rate = exit_byte_rate

\* The request handler ran bound, on a request that satisfies the policy.
AcceptedRequestStep == RequestStep /\ PolicySatisfied(handled'.msg) /\ pool # None

\* C26: each accepted request is handed to the pool exactly once, during its
\* own handling, with its payload and consuming wallet unchanged, whether or
\* not the stream key already had a context; no other step hands anything to
\* the pool, so hand-offs come in the order the requests were handled.
C26_OneHandOffPerAcceptedRequest ==
    [][IF AcceptedRequestStep
       THEN HandedToPool(handled'.msg)
       ELSE pool_out' = <<>>]_vars

\* A request for a stream key that already had another return route was
\* handed to the pool.
C26_Witness ==
    /\ handled.type = "ExpiredCoresPackage"
    /\ rerouted # None
    /\ rerouted[1].stream_key = handled.msg.payload.stream_key
    /\ pool_out = <<[payload |-> handled.msg.payload,
                     consuming_wallet |-> handled.msg.consuming_wallet]>>

\* C27: a refused request (no consuming wallet, originator key not the local
\* key) leaves the stream-context map exactly as it was and sends nothing to
\* the pool, the hopper or the accountant.
C27_RefusedRequestChangesNothing ==
    [][(RequestStep /\ ~PolicySatisfied(handled'.msg)) =>
           /\ stream_contexts' = stream_contexts
           /\ pool_out' = <<>>
           /\ hopper_out' = <<>>
           /\ accountant_out' = <<>>
           /\ UNCHANGED <<bindings, config>>]_vars

\* A request was refused for a stream key that has a context.
C27_Witness ==
    /\ handled.type = "ExpiredCoresPackage"
    /\ handled.msg.consuming_wallet = None
    /\ handled.msg.payload.originator_public_key # LocalKey
    /\ handled.msg.payload.stream_key \in DOMAIN stream_contexts
    /\ LoggedOnly(log, "Refusing to provide exit services for CORES package without consuming wallet")
    /\ pool_out = <<>>

\* C28: the package a relayed InboundServerData gives the hopper is one
\* ClientResponse with the message's stream_key, data, sequence_number and
\* last_data, over the return_route of the context stored for the key and
\* encrypted to the context's payload_destination_key, which is the
\* originator_public_key of the latest accepted request for the key.
C28_ResponsePackageContents ==
    [][(InboundStep /\ hopper_out' # <<>>) =>
           LET msg == handled'.msg
               stream_context == stream_contexts[msg.stream_key]
           IN  /\ msg.stream_key \in DOMAIN stream_contexts
               /\ Len(hopper_out') = 1
               /\ hopper_out'[1].route = stream_context.return_route
               /\ decodex(stream_context.payload_destination_key, hopper_out'[1].payload) =
                      Ok([type |-> "ClientResponse",
                          stream_key |-> msg.stream_key,
                          sequenced_packet |-> [data |-> msg.data,
                                                sequence_number |-> msg.sequence_number,
                                                last_data |-> msg.last_data]])
               /\ latest_accepted[msg.stream_key] # None
               /\ stream_context.payload_destination_key =
                      latest_accepted[msg.stream_key][1].originator_public_key]_vars

\* The last chunk of a stream was relayed to a remote originator.
C28_Witness ==
    /\ RelayedResponse
    /\ handled.msg.last_data
    /\ Len(handled.msg.data) > 0
    /\ decodex(OriginatorKey, hopper_out[1].payload).ok
    /\ decodex(OriginatorKey, hopper_out[1].payload).value.sequenced_packet.last_data

\* C29: Bind creates the pool from one resolver configuration whose name
\* servers are the configured dns_servers in the configured order, each with
\* protocol UDP and no TLS name, with no domain, no search list and default
\* options, and sets the hopper and accountant endpoints.
C29_BindBuildsResolverConfig ==
    [][handled'.type = "BindMessage" =>
           /\ pool' # None
           /\ pool'[1].resolver.opts = "default"
           /\ pool'[1].resolver.config.domain = None
           /\ pool'[1].resolver.config.search = <<>>
           /\ Len(pool'[1].resolver.config.name_servers) = Len(dns_servers)
           /\ \A i \in 1..Len(dns_servers) :
                  pool'[1].resolver.config.name_servers[i] =
                      [socket_addr |-> dns_servers[i],
                       protocol |-> "Udp",
                       tls_dns_name |-> None]
           /\ to_hopper' # None
           /\ to_accountant' # None]_vars

\* Bind has been handled by an actor configured with two DNS servers.
C29_Witness ==
    /\ handled.type = "BindMessage"
    /\ Len(dns_servers) = 2
    /\ dns_servers[1] # dns_servers[2]
    /\ pool # None
    /\ pool[1].resolver.config.name_servers[1].socket_addr = dns_servers[1]
    /\ pool[1].resolver.config.name_servers[2].socket_addr = dns_servers[2]
    /\ to_hopper # None
    /\ to_accountant # None

\* C30: a request that satisfies the acceptance policy but is handled before
\* Bind fails fatally with "StreamHandlerPool unbound", and no StreamContext
\* has been stored when it does.
C30_UnboundRequestIsFatal ==
    [][(RequestStep /\ PolicySatisfied(handled'.msg) /\ pool = None) =>
           /\ panicked' = "StreamHandlerPool unbound"
           /\ stream_contexts' = stream_contexts
           /\ DOMAIN stream_contexts' = {}
           /\ pool_out' = <<>>]_vars

\* A paying request killed the unbound actor, leaving the map empty.
C30_Witness ==
    /\ handled.type = "ExpiredCoresPackage"
    /\ handled.msg.consuming_wallet # None
    /\ pool = None
    /\ panicked = "StreamHandlerPool unbound"
    /\ DOMAIN stream_contexts = {}

\* Every context belongs to a paying client or to the local node.
EveryContextPaidOrLocal(contexts) ==
    \A k \in DOMAIN contexts :
        \/ contexts[k].consuming_wallet # None
        \/ contexts[k].payload_destination_key = LocalKey

C35_ContextsImplyBound ==
    [][/\ DOMAIN stream_contexts' # {} =>
              (to_hopper' # None /\ to_accountant' # None /\ pool' # None)
       /\ (InboundStep \/ DnsFailureStep) =>
              panicked' \notin {"Hopper unbound", "Hopper is unbound", "Accountant unbound"}]_vars

\* A bound actor serving both streams has relayed a response free of charge
\* without failing.
C35_Witness ==
    /\ handled.type = "InboundServerData"
    /\ DOMAIN stream_contexts = StreamKeys
    /\ IsBound
    /\ hopper_out # <<>>
    /\ accountant_out = <<>>
    /\ panicked = NoPanic

\* The step leaves the contexts of all stream keys but `key` as they were.
OtherContextsKept(key) ==
    \A k \in StreamKeys \ {key} :
        /\ k \in DOMAIN stream_contexts' <=> k \in DOMAIN stream_contexts
        /\ k \in DOMAIN stream_contexts => stream_contexts'[k] = stream_contexts[k]

\* C36: handling a request, an InboundServerData or a DnsResolveFailure for a
\* stream key leaves the context of every other key as it was (not created,
\* not altered, not removed), and handling Bind leaves the whole map alone.
C36_StreamIsolation ==
    [][/\ RequestStep => OtherContextsKept(handled'.msg.payload.stream_key)
       /\ (InboundStep \/ DnsFailureStep) => OtherContextsKept(handled'.msg.stream_key)
       /\ (handled'.type = "BindMessage" /\ HandleBind) =>
              stream_contexts' = stream_contexts]_vars

\* The last chunk of one stream was relayed and its context removed while the
\* other stream kept its context.
C36_Witness ==
    /\ RelayedResponse
    /\ handled.msg.last_data
    /\ handled.msg.stream_key \notin DOMAIN stream_contexts
    /\ DOMAIN stream_contexts = StreamKeys \ {handled.msg.stream_key}

\* C37: an accountant report is only sent in the handling of an
\* InboundServerData whose response package has gone to the hopper; each
\* handled InboundServerData gives at most one hopper message and at most one
\* report, and no other handler reports, so reports never outnumber the
\* response packages sent.
C37_ReportOnlyAfterHopperSend ==
    [][\/ HopperDies
       \/ AccountantDies
       \/ /\ accountant_out' # <<>> =>
                 /\ handled'.type = "InboundServerData"
                 /\ Len(hopper_out') = 1
                 /\ Len(accountant_out') = 1
                 /\ accountant_out'[1].payload_size = Len(handled'.msg.data)
                 /\ LET stream_context == stream_contexts[handled'.msg.stream_key]
                        sent == decodex(stream_context.payload_destination_key,
                                        hopper_out'[1].payload)
                    IN  /\ sent.ok
                        /\ sent.value.type = "ClientResponse"
                        /\ sent.value.stream_key = handled'.msg.stream_key
                        /\ sent.value.sequenced_packet.sequence_number =
                               handled'.msg.sequence_number
          /\ InboundStep => Len(hopper_out') <= 1
          /\ Len(accountant_out') <= Len(hopper_out')]_vars

\* A response went to the hopper, but the accountant had died: the chunk was
\* sent and not reported.
C37_Witness ==
    /\ handled.type = "InboundServerData"
    /\ Len(hopper_out) = 1
    /\ accountant_out = <<>>
    /\ panicked = "Accountant is dead"

\* C38: handling a request never removes a StreamContext, and an accepted
\* request leaves a context under its stream key even when its own last_data
\* is true; a context is only removed by the handling of an InboundServerData
\* with last_data = true for its key.
C38_OnlyLastResponseRemoves ==
    [][/\ RequestStep => \A k \in DOMAIN stream_contexts : k \in DOMAIN stream_contexts'
       /\ AcceptedRequestStep =>
              handled'.msg.payload.stream_key \in DOMAIN stream_contexts'
       /\ \A k \in DOMAIN stream_contexts \ DOMAIN stream_contexts' :
              /\ InboundStep
              /\ handled'.msg.last_data
              /\ handled'.msg.stream_key = k]_vars

\* A request marked last_data replaced the return route of its stream, whose
\* context is still there.
C38_Witness ==
    /\ handled.type = "ExpiredCoresPackage"
    /\ handled.msg.payload.sequenced_packet.last_data
    /\ rerouted # None
    /\ rerouted[1].stream_key = handled.msg.payload.stream_key
    /\ handled.msg.payload.stream_key \in DOMAIN stream_contexts
    /\ stream_contexts[handled.msg.payload.stream_key].return_route = handled.msg.remaining_route

(***************************************************************************)
(* Properties of the resolv.conf inspector, stated over the lines of the   *)
(* file.                                                                   *)
(***************************************************************************)
\* The lines of a file: the stretches between its line feeds.
RECURSIVE LinesOf(_)
LinesOf(text) ==
    IF \A i \in 1..Len(text) : text[i] # LineFeed THEN <<text>>
    ELSE LET feed == CHOOSE i \in 1..Len(text) :
                         text[i] = LineFeed /\ \A k \in 1..(i - 1) : text[k] # LineFeed
         IN  <<SubSeq(text, 1, feed - 1)>> \o LinesOf(SubSeq(text, feed + 1, Len(text)))

\* The words of a line up to its comment: the line cut at its first #, split
\* at blanks.
RECURSIVE WordsOf(_)
WordsOf(line) ==
    IF line = <<>> \/ line[1] = Hash THEN <<>>
    ELSE IF line[1] = Blank THEN WordsOf(Tail(line))
    ELSE LET rest == WordsOf(Tail(line))
         IN  IF Len(line) > 1 /\ line[2] \notin {Blank, Hash} /\ rest # <<>>
             THEN <<<<line[1]>> \o rest[1]>> \o Tail(rest)
             ELSE <<<<line[1]>>>> \o rest

\* An active nameserver line: its first word is nameserver, and a blank
\* follows the word.
IsActiveLine(line) ==
    /\ WordsOf(line) # <<>>
    /\ WordsOf(line)[1] = <<Nameserver>>
    /\ \E i \in 1..(Len(line) - 1) :
           /\ line[i] = Nameserver
           /\ line[i + 1] = Blank
           /\ \A k \in 1..(i - 1) : line[k] = Blank

\* The word an active line carries after nameserver: empty when there is none.
TokenOf(line) == IF Len(WordsOf(line)) >= 2 THEN WordsOf(line)[2] ELSE <<>>

ActiveLines(text) == SelectSeq(LinesOf(text), IsActiveLine)
ActiveTokens(text) == [i \in 1..Len(ActiveLines(text)) |-> TokenOf(ActiveLines(text)[i])]
IsAddress(token) == Len(token) = 1 /\ token[1] \in ValidIps
ValidAddresses(text) ==
    LET valid == SelectSeq(ActiveTokens(text), IsAddress)
    IN  [i \in 1..Len(valid) |-> valid[i][1]]

Inspected == inspection # None /\ resolv_conf.kind = "file"

\* C21: the inspector returns NotConnected exactly when the contents hold no
\* active nameserver line, and an Ok result never carries an empty list.
C21_NotConnectedIffNoActiveLine ==
    Inspected =>
        /\ inspection[1] = Err(NotConnected) <=> ActiveLines(resolv_conf.contents) = <<>>
        /\ inspection[1].ok => inspection[1].value # <<>>

\* C22: the addresses of an Ok result are the first words after nameserver of
\* the active lines, in file order; nothing else contributes.
C22_AddressesFromActiveLinesOnly ==
    Inspected /\ inspection[1].ok =>
        inspection[1].value = ValidAddresses(resolv_conf.contents)

\* C23: when there are active lines and none carries a valid address, the
\* result is BadEntryFormat with the word of the first active line, and no
\* address list is returned.
C23_FirstBadEntryReported ==
    Inspected /\ ActiveLines(resolv_conf.contents) # <<>>
              /\ ValidAddresses(resolv_conf.contents) = <<>> =>
        inspection[1] = Err(BadEntryFormat(ActiveTokens(resolv_conf.contents)[1]))

\* C40: when at least one active nameserver line carries a valid address, the
\* result is Ok with exactly the valid addresses of the active lines in file
\* order; active lines with invalid addresses are dropped without an error.
C40_ValidAddressesReturned ==
    (Inspected /\ ValidAddresses(resolv_conf.contents) # <<>>) =>
        inspection[1] = Ok(ValidAddresses(resolv_conf.contents))

====
